---- MODULE Spec2Model ----
(***************************************************************************)
(* Plugin launch protocol of helper/pluginutil: PluginRunner.Run, the      *)
(* client it returns, and the plugin-side flag surface (APIClientMeta).    *)
(*                                                                         *)
(* Each call of Run is a process with a position (pc) in Run's body; the   *)
(* calls to the certificate helpers and to the wrapping service are the    *)
(* points where calls interleave.                                          *)
(***************************************************************************)
EXTENDS Integers, Sequences, FiniteSets, TLC

\* Number of Run calls made on the descriptor.
MaxCalls == 2

\* Number of command-line arguments handed to the plugin's flag set.
MaxArgs == 3

\* Number of plugin processes started.
MaxProcs == 2

Calls == 1..MaxCalls

Procs == 1..MaxProcs

\* Go's nil for pointers and interfaces.
Nil == [nil |-> TRUE]

NoError == "nil"

(***************************************************************************)
(* Names of the environment variables Run injects.                         *)
(***************************************************************************)
PluginUnwrapTokenEnv == "PluginUnwrapTokenEnv"

PluginMlockEnabled == "PluginMlockEnabled"

PluginMetadaModeEnv == "PluginMetadaModeEnv"

\* fmt.Sprintf("%s=%s", name, value): one entry of cmd.Env.
EnvEntry(name, value) == [name |-> name, value |-> value]

(***************************************************************************)
(* Inputs.                                                                 *)
(***************************************************************************)
\* The digest of the binary found at the descriptor's command.
BinaryDigest == "sha256:binary"

\* PluginRunner values handed out by the catalog.
PluginRunner ==
    [Name : {"mock-plugin"},
     Command : {"", "echo"},
     Args : {<<"hello">>},
     Sha256 : {BinaryDigest, "sha256:other"},
     Builtin : BOOLEAN,
     BuiltinFactory : {"nil"}]

\* The env argument of Run: empty, ordinary entries, and entries that
\* already carry the names of the variables Run injects.
CallerEnvs ==
    { <<>>,
      << EnvEntry("PATH", "/bin"), EnvEntry("HOME", "/root") >>,
      << EnvEntry(PluginUnwrapTokenEnv, "stale"), EnvEntry("PATH", "/bin") >>,
      << EnvEntry(PluginMlockEnabled, "true"),
         EnvEntry(PluginMetadaModeEnv, "true") >> }

VARIABLES
    r,          \* the descriptor (*PluginRunner) the calls are made on
    mlock,      \* what wrapper.MlockEnabled() answers
    callerEnv,  \* the env slice the caller passes to Run
    run,        \* per call: position in Run and Run's locals and results
    client,     \* per call: the plugin.Client Run returned, and its process
    issued,     \* number of CA certificates generated so far
    wrapSvc,    \* the wrapping service: payloads wrapped so far, by token index
    flags,      \* APIClientMeta
    argv,       \* arguments parsed by the flag set so far
    tlsConfig,  \* result of GetTLSConfig: <<>> before the call, <<result>> after
    plug,       \* per plugin process: its environment and position in its main
    mnt         \* a plugin-backed mount: its state, launch and last response

launchVars == <<r, mlock, callerEnv, run, client, issued, wrapSvc>>

flagVars == <<flags, argv, tlsConfig>>

vars ==
    <<r, mlock, callerEnv, run, client, issued, wrapSvc, flags, argv, tlsConfig,
      plug, mnt>>

(***************************************************************************)
(* Helpers of Run whose bodies live outside runner.go.                     *)
(***************************************************************************)
\* generateCert(): a fresh self-signed CA and its key, or an error.
generateCert(n) ==
    { [certBytes |-> n + 1, key |-> n + 1, err |-> NoError],
      [certBytes |-> 0, key |-> 0, err |-> "CertGenerationError"] }

\* A leaf certificate signed by the CA certBytes with the CA's key.
signLeaf(certBytes, key, role) ==
    [role |-> role, signedBy |-> certBytes, signingKey |-> key]

\* createClientTLSConfig(certBytes, key): a client leaf signed by the CA and
\* the TLS config built from it, or an error.
createClientTLSConfig(certBytes, key) ==
    { [config |-> [nil |-> FALSE,
                   RootCAs |-> certBytes,
                   Certificate |-> signLeaf(certBytes, key, "client")],
       err |-> NoError],
      [config |-> Nil, err |-> "CertGenerationError"] }

\* The token the wrapping service hands out for its n-th wrap.
TokenOf(n) == "s.token" \o ToString(n)

\* wrapServerConfig(wrapper, certBytes, key): a server leaf signed by the CA,
\* wrapped together with the CA by wrapper.ResponseWrapData.  A result names
\* the token, the error, whether the wrapping service was called and what it
\* answered, and the wrapping service afterwards.
wrapServerConfig(svc, certBytes, key) ==
    LET payload == [CACert |-> certBytes,
                    ServerCert |-> signLeaf(certBytes, key, "server"),
                    unwrapped |-> FALSE, expired |-> FALSE]
    IN { [wrapToken |-> TokenOf(Len(svc) + 1), err |-> NoError,
          called |-> TRUE, svcErr |-> NoError, svc |-> Append(svc, payload)],
         [wrapToken |-> "", err |-> "WrapServiceError",
          called |-> TRUE, svcErr |-> "WrapServiceError", svc |-> svc],
         [wrapToken |-> "", err |-> "CertGenerationError",
          called |-> FALSE, svcErr |-> NoError, svc |-> svc] }

\* exec.Command(name, arg...)
execCommand(name, args) ==
    [Path |-> name, Args |-> <<name>> \o args, Env |-> <<>>]

(***************************************************************************)
(* PluginRunner.Run                                                        *)
(***************************************************************************)
\* The locals of a call that has not been made.
IdleRun ==
    [pc |-> "idle", isMetadataMode |-> FALSE, certBytes |-> 0, key |-> 0,
     clientTLSConfig |-> Nil, wrapToken |-> "", cmd |-> Nil,
     retClient |-> FALSE, err |-> NoError,
     certErr |-> NoError, wrapCalled |-> FALSE, wrapErr |-> NoError]

\* "return nil, err": the locals are gone, the results are nil and e.
ReturnErr(c, e) == [IdleRun EXCEPT !.pc = "done", !.err = e]

\* Mutant of LaunchEnv: the metadata-mode entry is added inside the mlock
\* case only.
LaunchEnvMetadataInMlock(env, wrapToken, mlockEnabled, isMetadataMode) ==
    LET e1 == <<>> \o env
        e2 == Append(e1, EnvEntry(PluginUnwrapTokenEnv, wrapToken))
    IN IF mlockEnabled
       THEN LET e3 == Append(e2, EnvEntry(PluginMlockEnabled, "true"))
            IN IF isMetadataMode
               THEN Append(e3, EnvEntry(PluginMetadaModeEnv, "true"))
               ELSE e3
       ELSE e2

\* Mutant of LaunchEnv: the caller's entries are appended after Run's own.
LaunchEnvCallerLast(env, wrapToken, mlockEnabled, isMetadataMode) ==
    LET e2 == << EnvEntry(PluginUnwrapTokenEnv, wrapToken) >>
        e3 == IF mlockEnabled
              THEN Append(e2, EnvEntry(PluginMlockEnabled, "true"))
              ELSE e2
        e4 == IF isMetadataMode
              THEN Append(e3, EnvEntry(PluginMetadaModeEnv, "true"))
              ELSE e3
    IN e4 \o env

\* Mutant of LaunchEnv: the mlock setting is never passed on.
LaunchEnvNoMlock(env, wrapToken, mlockEnabled, isMetadataMode) ==
    LET e1 == <<>> \o env
        e2 == Append(e1, EnvEntry(PluginUnwrapTokenEnv, wrapToken))
    IN IF isMetadataMode
       THEN Append(e2, EnvEntry(PluginMetadaModeEnv, "true"))
       ELSE e2

\* cmd.Env as Run assembles it (lines 72-78 and 93).
LaunchEnv(env, wrapToken, mlockEnabled, isMetadataMode) ==
    LET e1 == <<>> \o env
        e2 == Append(e1, EnvEntry(PluginUnwrapTokenEnv, wrapToken))
        e3 == IF mlockEnabled
              THEN Append(e2, EnvEntry(PluginMlockEnabled, "true"))
              ELSE e2
    IN IF isMetadataMode
       THEN Append(e3, EnvEntry(PluginMetadaModeEnv, "true"))
       ELSE e3

\* Mutant of SecureConfigOf: the descriptor's digest is not copied.
SecureConfigNoChecksum(d) == [nil |-> FALSE, Checksum |-> "", Hash |-> "sha256"]

\* Mutant of SecureConfigOf: the client is built without a secure config.
SecureConfigUnset(d) == Nil

\* secureConfig := &plugin.SecureConfig{Checksum: r.Sha256, Hash: sha256.New()}
SecureConfigOf(d) == [nil |-> FALSE, Checksum |-> d.Sha256, Hash |-> "sha256"]

\* Mutant of ClientTLSConfigOf: the metadata-mode case keeps the TLS config.
ClientTLSConfigKept(config, isMetadataMode) == config

\* The TLS config handed to the client: dropped in metadata mode.
ClientTLSConfigOf(config, isMetadataMode) ==
    IF isMetadataMode THEN Nil ELSE config

\* The logger handed to the client.
LoggerNameOf(isMetadataMode) ==
    IF isMetadataMode THEN "plugin.metadata" ELSE "plugin"

\* Mutant of NewClient: Run starts the subprocess before it returns.
NewClientStarted(config) ==
    [nil |-> FALSE, config |-> config, state |-> "started",
     process |-> "running", err |-> NoError]

\* plugin.NewClient(config): the handle; no process is started by it.
NewClient(config) ==
    [nil |-> FALSE, config |-> config, state |-> "inert", process |-> "none",
     err |-> NoError]

\* Mutant of RunGenerateCert: the CA of an earlier call is kept and reused.
RunGenerateCertCached(c) ==
    /\ run[c].pc = "idle"
    /\ \A d \in Calls : d < c => run[d].pc # "idle"
    /\ \E meta \in BOOLEAN :
          LET n == IF issued > 0 THEN issued ELSE 1
          IN /\ run' = [run EXCEPT ![c] =
                           [run[c] EXCEPT !.pc = "createClientTLSConfig",
                                          !.isMetadataMode = meta,
                                          !.certBytes = n,
                                          !.key = n]]
             /\ issued' = n
    /\ UNCHANGED <<r, mlock, callerEnv, client, wrapSvc, flagVars, plug, mnt>>

\* Entry of Run and "certBytes, key, err := generateCert()".
RunGenerateCert(c) ==
    /\ run[c].pc = "idle"
    /\ \A d \in Calls : d < c => run[d].pc # "idle"
    /\ \E meta \in BOOLEAN, g \in generateCert(issued) :
          IF g.err # NoError
          THEN /\ run' = [run EXCEPT ![c] =
                             [ReturnErr(c, g.err) EXCEPT !.certErr = g.err]]
               /\ UNCHANGED issued
          ELSE /\ run' = [run EXCEPT ![c] =
                             [run[c] EXCEPT !.pc = "createClientTLSConfig",
                                            !.isMetadataMode = meta,
                                            !.certBytes = g.certBytes,
                                            !.key = g.key]]
               /\ issued' = g.certBytes
    /\ UNCHANGED <<r, mlock, callerEnv, client, wrapSvc, flagVars, plug, mnt>>

\* Mutant of AfterClientTLSConfig: the error of createClientTLSConfig is not
\* checked.
AfterClientTLSConfigIgnoreErr(c, t) ==
    [run[c] EXCEPT !.pc = "wrapServerConfig", !.clientTLSConfig = t.config,
                   !.certErr = t.err]

\* "if err != nil { return nil, err }" after createClientTLSConfig answered t.
AfterClientTLSConfig(c, t) ==
    IF t.err # NoError
    THEN [ReturnErr(c, t.err) EXCEPT !.certErr = t.err]
    ELSE [run[c] EXCEPT !.pc = "wrapServerConfig",
                        !.clientTLSConfig = t.config]

\* "clientTLSConfig, err := createClientTLSConfig(certBytes, key)"
RunCreateClientTLSConfig(c) ==
    /\ run[c].pc = "createClientTLSConfig"
    /\ \E t \in createClientTLSConfig(run[c].certBytes, run[c].key) :
          run' = [run EXCEPT ![c] = AfterClientTLSConfig(c, t)]
    /\ UNCHANGED <<r, mlock, callerEnv, client, issued, wrapSvc, flagVars, plug, mnt>>

\* Mutant of AfterWrap: the error of wrapServerConfig is not checked.
AfterWrapIgnoreErr(c, w) ==
    [run[c] EXCEPT !.pc = "execCommand", !.wrapToken = w.wrapToken,
                   !.wrapCalled = w.called, !.wrapErr = w.svcErr]

\* "if err != nil { return nil, err }" after wrapServerConfig answered w.
AfterWrap(c, w) ==
    IF w.err # NoError
    THEN [ReturnErr(c, w.err) EXCEPT !.wrapCalled = w.called,
                                     !.wrapErr = w.svcErr]
    ELSE [run[c] EXCEPT !.pc = "execCommand", !.wrapToken = w.wrapToken,
                        !.wrapCalled = w.called]

\* "wrapToken, err := wrapServerConfig(wrapper, certBytes, key)"
RunWrapServerConfig(c) ==
    /\ run[c].pc = "wrapServerConfig"
    /\ \E w \in wrapServerConfig(wrapSvc, run[c].certBytes, run[c].key) :
          /\ run' = [run EXCEPT ![c] = AfterWrap(c, w)]
          /\ wrapSvc' = w.svc
    /\ UNCHANGED <<r, mlock, callerEnv, client, issued, flagVars, plug, mnt>>

\* Mutant of RunNewClient: the command's argument list is stored back into
\* the descriptor.
RunNewClientStoresArgs(c) ==
    /\ run[c].pc = "execCommand"
    /\ LET cmd == [execCommand(r.Command, r.Args) EXCEPT
                      !.Env = LaunchEnv(callerEnv, run[c].wrapToken, mlock,
                                        run[c].isMetadataMode)]
           config == [Cmd |-> cmd,
                      TLSConfig |-> ClientTLSConfigOf(run[c].clientTLSConfig,
                                                      run[c].isMetadataMode),
                      SecureConfig |-> SecureConfigOf(r),
                      Logger |-> LoggerNameOf(run[c].isMetadataMode)]
       IN /\ run' = [run EXCEPT ![c] =
                        [run[c] EXCEPT !.pc = "done", !.cmd = cmd,
                                       !.retClient = TRUE, !.err = NoError]]
          /\ client' = [client EXCEPT ![c] = NewClient(config)]
          /\ r' = [r EXCEPT !.Args = cmd.Args]
    /\ UNCHANGED <<mlock, callerEnv, issued, wrapSvc, flagVars, plug, mnt>>

\* Lines 71-107: the command, its environment, the secure config, the logger,
\* the metadata-mode case, plugin.NewClient and "return client, nil".
RunNewClient(c) ==
    /\ run[c].pc = "execCommand"
    /\ LET cmd == [execCommand(r.Command, r.Args) EXCEPT
                      !.Env = LaunchEnv(callerEnv, run[c].wrapToken, mlock,
                                        run[c].isMetadataMode)]
           config == [Cmd |-> cmd,
                      TLSConfig |-> ClientTLSConfigOf(run[c].clientTLSConfig,
                                                      run[c].isMetadataMode),
                      SecureConfig |-> SecureConfigOf(r),
                      Logger |-> LoggerNameOf(run[c].isMetadataMode)]
       IN /\ run' = [run EXCEPT ![c] =
                        [run[c] EXCEPT !.pc = "done", !.cmd = cmd,
                                       !.retClient = TRUE, !.err = NoError]]
          /\ client' = [client EXCEPT ![c] = NewClient(config)]
    /\ UNCHANGED <<r, mlock, callerEnv, issued, wrapSvc, flagVars, plug, mnt>>

(***************************************************************************)
(* First use of the returned client (go-plugin's Client.Start).            *)
(***************************************************************************)
\* The checksum gate: the digest of the file at cmd.Path against the
\* configured checksum.  "" is no file.
ChecksumGate(config) ==
    IF config.SecureConfig = Nil THEN "pass"
    ELSE IF config.Cmd.Path = "" THEN "ExecError"
    ELSE IF config.SecureConfig.Checksum # BinaryDigest
         THEN "ChecksumMismatchError"
    ELSE "pass"

\* The caller exercises the handle: checksum gate, then the subprocess is
\* started.
ClientStart(c) ==
    /\ client[c] # Nil
    /\ client[c].state = "inert"
    /\ LET gate == ChecksumGate(client[c].config)
       IN client' = [client EXCEPT ![c] =
                        IF gate = "pass"
                        THEN [client[c] EXCEPT !.state = "started",
                                               !.process = "running"]
                        ELSE [client[c] EXCEPT !.state = "failed",
                                               !.err = gate]]
    /\ UNCHANGED <<r, mlock, callerEnv, run, issued, wrapSvc, flagVars, plug, mnt>>

\* The handshake with the started subprocess.
ClientHandshake(c) ==
    /\ client[c] # Nil
    /\ client[c].state = "started"
    /\ client' = [client EXCEPT ![c] = [client[c] EXCEPT !.state = "connected"]]
    /\ UNCHANGED <<r, mlock, callerEnv, run, issued, wrapSvc, flagVars, plug, mnt>>

(***************************************************************************)
(* APIClientMeta: the plugin binary's flag set and GetTLSConfig.           *)
(***************************************************************************)
\* Command-line arguments "--flag=value" the flag set accepts.
FlagArgs ==
    { [flag |-> "ca-cert", value |-> "/tmp/ca.pem"],
      [flag |-> "ca-cert", value |-> ""],
      [flag |-> "ca-path", value |-> "/tmp/ca"],
      [flag |-> "client-cert", value |-> "/tmp/c.pem"],
      [flag |-> "client-key", value |-> "/tmp/c.key"],
      [flag |-> "tls-skip-verify", value |-> "true"],
      [flag |-> "tls-skip-verify", value |-> "false"],
      [flag |-> "metadata", value |-> "true"] }

\* A zero APIClientMeta after FlagSet(): every flag at its default.
DefaultFlags ==
    [flagCACert |-> "", flagCAPath |-> "", flagClientCert |-> "",
     flagClientKey |-> "", flagInsecure |-> FALSE, flagMetadata |-> FALSE]

\* The value of a boolean flag.
ParseBool(v) == v = "true"

\* FlagSet: the field each flag name is bound to, set from one argument.
FlagSet(f, a) ==
    CASE a.flag = "ca-cert" -> [f EXCEPT !.flagCACert = a.value]
      [] a.flag = "ca-path" -> [f EXCEPT !.flagCAPath = a.value]
      [] a.flag = "client-cert" -> [f EXCEPT !.flagClientCert = a.value]
      [] a.flag = "client-key" -> [f EXCEPT !.flagClientKey = a.value]
      [] a.flag = "tls-skip-verify" -> [f EXCEPT !.flagInsecure = ParseBool(a.value)]
      [] a.flag = "metadata" -> [f EXCEPT !.flagMetadata = ParseBool(a.value)]

\* APIClientMeta.FetchMetadata
FetchMetadata(f) == f.flagMetadata

\* Mutant of GetTLSConfig: tls-skip-verify alone builds no config.
GetTLSConfigNoInsecure(f) ==
    IF \/ f.flagCACert # ""
       \/ f.flagCAPath # ""
       \/ f.flagClientCert # ""
       \/ f.flagClientKey # ""
    THEN [nil |-> FALSE,
          CACert |-> f.flagCACert,
          CAPath |-> f.flagCAPath,
          ClientCert |-> f.flagClientCert,
          ClientKey |-> f.flagClientKey,
          TLSServerName |-> "",
          Insecure |-> f.flagInsecure]
    ELSE Nil

\* APIClientMeta.GetTLSConfig
GetTLSConfig(f) ==
    IF \/ f.flagCACert # ""
       \/ f.flagCAPath # ""
       \/ f.flagClientCert # ""
       \/ f.flagClientKey # ""
       \/ f.flagInsecure
    THEN [nil |-> FALSE,
          CACert |-> f.flagCACert,
          CAPath |-> f.flagCAPath,
          ClientCert |-> f.flagClientCert,
          ClientKey |-> f.flagClientKey,
          TLSServerName |-> "",
          Insecure |-> f.flagInsecure]
    ELSE Nil

\* flags.Parse(args), one argument at a time.
ParseArg ==
    /\ tlsConfig = <<>>
    /\ Len(argv) < MaxArgs
    /\ \E a \in FlagArgs :
          /\ flags' = FlagSet(flags, a)
          /\ argv' = Append(argv, a)
    /\ UNCHANGED <<tlsConfig, launchVars, plug, mnt>>

\* tlsConfig := apiClientMeta.GetTLSConfig()
CallGetTLSConfig ==
    /\ tlsConfig = <<>>
    /\ tlsConfig' = << GetTLSConfig(flags) >>
    /\ UNCHANGED <<flags, argv, launchVars, plug, mnt>>

(***************************************************************************)
(* The plugin binary's main: TestBackend_PluginMainLogical and             *)
(* TestBackend_PluginMainCredentials, which differ in the factory only.    *)
(***************************************************************************)
PluginCACertPEMEnv == "PluginCACertPEMEnv"

\* os.Getenv(name): the value of the first entry with that name, "" if none.
Getenv(env, name) ==
    IF \E i \in DOMAIN env : env[i].name = name
    THEN env[CHOOSE i \in DOMAIN env :
                 /\ env[i].name = name
                 /\ \A j \in DOMAIN env : env[j].name = name => i <= j].value
    ELSE ""

\* Environments a plugin process is started with: by hand without the token
\* variable or with an empty one, by a launch with its token, by a launch in
\* metadata mode, with a token but no CA, and with a string that is no token.
PluginEnvs ==
    { << EnvEntry(PluginCACertPEMEnv, "ca.pem") >>,
      << EnvEntry(PluginCACertPEMEnv, "ca.pem"),
         EnvEntry(PluginUnwrapTokenEnv, "") >>,
      << EnvEntry(PluginCACertPEMEnv, "ca.pem"),
         EnvEntry(PluginUnwrapTokenEnv, TokenOf(1)) >>,
      << EnvEntry(PluginCACertPEMEnv, "ca.pem"),
         EnvEntry(PluginUnwrapTokenEnv, TokenOf(1)),
         EnvEntry(PluginMetadaModeEnv, "true") >>,
      << EnvEntry(PluginUnwrapTokenEnv, TokenOf(1)) >>,
      << EnvEntry(PluginCACertPEMEnv, "ca.pem"),
         EnvEntry(PluginUnwrapTokenEnv, "malformed") >> }

\* A plugin process that has not been started.
IdlePlug ==
    [pc |-> "none", env |-> <<>>, args |-> <<>>, tlsConfig |-> Nil,
     tlsProvider |-> FALSE, serveCalled |-> FALSE, unwraps |-> 0,
     unwrapErr |-> NoError, mode |-> "none", token |-> "", err |-> NoError]

\* The wrapping service's unwrap(token): the payload of a token that exists,
\* has not expired and was never presented before; any presentation of an
\* existing token consumes it.
Unwrap(svc, token) ==
    IF \E n \in DOMAIN svc : TokenOf(n) = token
    THEN LET n == CHOOSE n \in DOMAIN svc : TokenOf(n) = token
         IN [err |-> IF svc[n].unwrapped THEN "UnwrapError: consumed"
                     ELSE IF svc[n].expired THEN "UnwrapError: expired"
                     ELSE NoError,
             svc |-> [svc EXCEPT ![n].unwrapped = TRUE]]
    ELSE [err |-> "UnwrapError: malformed", svc |-> svc]

\* lplugin.Serve with the TLS provider of VaultPluginTLSProvider: in metadata
\* mode it serves without TLS and without the token; otherwise it calls the
\* provider once, which unwraps the token of the environment, and serves over
\* mutually authenticated TLS, or returns the provider's error.
Serve(svc, env) ==
    IF Getenv(env, PluginMetadaModeEnv) = "true"
    THEN [err |-> NoError, unwraps |-> 0, unwrapErr |-> NoError, svc |-> svc,
          mode |-> "metadata"]
    ELSE LET u == Unwrap(svc, Getenv(env, PluginUnwrapTokenEnv))
         IN [err |-> u.err, unwraps |-> 1, unwrapErr |-> u.err, svc |-> u.svc,
             mode |-> IF u.err = NoError THEN "secure" ELSE "none"]

\* The plugin binary is executed with an environment.
PluginStart(p) ==
    /\ plug[p].pc = "none"
    /\ \A q \in Procs : q < p => plug[q].pc # "none"
    /\ \E env \in PluginEnvs :
          plug' = [plug EXCEPT ![p] = [IdlePlug EXCEPT !.pc = "main",
                                                        !.env = env]]
    /\ UNCHANGED <<launchVars, flagVars, mnt>>

\* Mutant of TokenPresent: main goes on whatever the variable holds.
TokenPresentAlways(env) == TRUE

\* os.Getenv(pluginutil.PluginUnwrapTokenEnv) == "" negated
TokenPresent(env) == Getenv(env, PluginUnwrapTokenEnv) # ""

\* if os.Getenv(pluginutil.PluginUnwrapTokenEnv) == "" { return }
PluginMainCheckToken(p) ==
    /\ plug[p].pc = "main"
    /\ plug' = [plug EXCEPT ![p].pc = IF TokenPresent(plug[p].env)
                                      THEN "checkCA"
                                      ELSE "returned"]
    /\ UNCHANGED <<launchVars, flagVars, mnt>>

\* caPEM := os.Getenv(pluginutil.PluginCACertPEMEnv); t.Fatal when empty;
\* args := []string{"--ca-cert=" + caPEM}
PluginMainCheckCA(p) ==
    /\ plug[p].pc = "checkCA"
    /\ LET caPEM == Getenv(plug[p].env, PluginCACertPEMEnv)
       IN plug' = IF caPEM = ""
                  THEN [plug EXCEPT ![p].pc = "fatal",
                                    ![p].err = "CA cert not passed in"]
                  ELSE [plug EXCEPT ![p].pc = "parse",
                                    ![p].args = << [flag |-> "ca-cert",
                                                    value |-> caPEM] >>]
    /\ UNCHANGED <<launchVars, flagVars, mnt>>

\* flags.Parse(args); tlsConfig := apiClientMeta.GetTLSConfig();
\* tlsProviderFunc := pluginutil.VaultPluginTLSProvider(tlsConfig)
PluginMainParseFlags(p) ==
    /\ plug[p].pc = "parse"
    /\ plug' = [plug EXCEPT
                   ![p].pc = "serve",
                   ![p].tlsConfig =
                       GetTLSConfig(FlagSet(DefaultFlags, plug[p].args[1])),
                   ![p].tlsProvider = TRUE]
    /\ UNCHANGED <<launchVars, flagVars, mnt>>

\* Mutant of PluginMainServe: a failed Serve is called again.
PluginMainServeRetry(p) ==
    /\ plug[p].pc = "serve"
    /\ LET s == Serve(wrapSvc, plug[p].env)
       IN /\ wrapSvc' = s.svc
          /\ plug' = [plug EXCEPT
                         ![p].pc = IF s.err = NoError THEN "serving"
                                   ELSE IF plug[p].unwraps >= 1 THEN "fatal"
                                   ELSE "serve",
                         ![p].serveCalled = TRUE,
                         ![p].unwraps = @ + s.unwraps,
                         ![p].unwrapErr = s.unwrapErr,
                         ![p].mode = s.mode,
                         ![p].token = Getenv(plug[p].env, PluginUnwrapTokenEnv),
                         ![p].err = s.err]
    /\ UNCHANGED <<r, mlock, callerEnv, run, client, issued, flagVars, mnt>>

\* err := lplugin.Serve(...); if err != nil { t.Fatal(err) }
PluginMainServe(p) ==
    /\ plug[p].pc = "serve"
    /\ LET s == Serve(wrapSvc, plug[p].env)
       IN /\ wrapSvc' = s.svc
          /\ plug' = [plug EXCEPT
                         ![p].pc = IF s.err = NoError THEN "serving"
                                   ELSE "fatal",
                         ![p].serveCalled = TRUE,
                         ![p].unwraps = @ + s.unwraps,
                         ![p].unwrapErr = s.unwrapErr,
                         ![p].mode = s.mode,
                         ![p].token = Getenv(plug[p].env, PluginUnwrapTokenEnv),
                         ![p].err = s.err]
    /\ UNCHANGED <<r, mlock, callerEnv, run, client, issued, flagVars, mnt>>

\* The wrapping service's TTL of an unconsumed token runs out.
TokenExpire(n) ==
    /\ n \in DOMAIN wrapSvc
    /\ ~wrapSvc[n].unwrapped
    /\ ~wrapSvc[n].expired
    /\ wrapSvc' = [wrapSvc EXCEPT ![n].expired = TRUE]
    /\ UNCHANGED <<r, mlock, callerEnv, run, client, issued, flagVars, plug, mnt>>

(***************************************************************************)
(* A plugin-backed mount with auto-reload, as the test of                  *)
(* TestSystemBackend_Plugin_autoReload drives it.                          *)
(***************************************************************************)
\* A mount that was never mounted.
NoMount ==
    [state |-> "unmounted", launch |-> 0, mem |-> "none", last |-> Nil,
     afterFail |-> "none", written |-> "none"]

\* A response of the mount to a request.
Response(path, op, err, value, launch) ==
    [nil |-> FALSE, path |-> path, op |-> op, err |-> err, value |-> value,
     launch |-> launch]

\* The client of call c has completed its handshake.
Connected(c) == IF client[c] = Nil THEN FALSE ELSE client[c].state = "connected"

\* Run of call c returned an error or its client failed to start.
LaunchFailed(c) ==
    \/ run[c].pc = "done" /\ run[c].err # NoError
    \/ IF client[c] = Nil THEN FALSE ELSE client[c].state = "failed"

\* The request after a failing one has been answered once this one is.
Answered(a) == IF a = "pending" THEN "answered" ELSE "none"

\* The mount is created: its plugin is launched for the first time.
MountEnable ==
    /\ mnt.state = "unmounted"
    /\ mnt' = [mnt EXCEPT !.state = "launching", !.launch = 1]
    /\ UNCHANGED <<launchVars, flagVars, plug>>

\* The launch protocol of the mount's current launch: Run, not in metadata
\* mode, and the first use of the client.
MountLaunch(c) ==
    /\ mnt.state = "launching"
    /\ mnt.launch = c
    /\ \/ RunGenerateCert(c) /\ ~run'[c].isMetadataMode
       \/ RunCreateClientTLSConfig(c)
       \/ RunWrapServerConfig(c)
       \/ RunNewClient(c)
       \/ ClientStart(c)
       \/ ClientHandshake(c)

\* The launch delivered a connected plugin instance with fresh memory.
MountReady(c) ==
    /\ mnt.state = "launching"
    /\ mnt.launch = c
    /\ Connected(c)
    /\ mnt' = [mnt EXCEPT !.state = "ready", !.mem = "default"]
    /\ UNCHANGED <<launchVars, flagVars, plug>>

\* The launch failed: the mount has no plugin instance.
MountFailed(c) ==
    /\ mnt.state = "launching"
    /\ mnt.launch = c
    /\ LaunchFailed(c)
    /\ mnt' = [mnt EXCEPT !.state = "failed"]
    /\ UNCHANGED <<launchVars, flagVars, plug>>

\* UpdateOperation on mock-0/internal with value "baz".
HandleWriteInternal ==
    /\ mnt.state \in {"ready", "failed"}
    /\ mnt' = IF mnt.state = "ready"
              THEN [mnt EXCEPT !.mem = "baz",
                               !.last = Response("internal", "update", NoError,
                                                 "", mnt.launch),
                               !.afterFail = Answered(@)]
              ELSE [mnt EXCEPT !.last = Response("internal", "update",
                                                 "plugin unavailable", "",
                                                 mnt.launch),
                               !.afterFail = Answered(@)]
    /\ UNCHANGED <<launchVars, flagVars, plug>>

\* ReadOperation on mock-0/internal.
HandleReadInternal ==
    /\ mnt.state \in {"ready", "failed"}
    /\ mnt' = IF mnt.state = "ready"
              THEN [mnt EXCEPT !.last = Response("internal", "read", NoError,
                                                 mnt.mem, mnt.launch),
                               !.afterFail = Answered(@)]
              ELSE [mnt EXCEPT !.last = Response("internal", "read",
                                                 "plugin unavailable", "",
                                                 mnt.launch),
                               !.afterFail = Answered(@)]
    /\ UNCHANGED <<launchVars, flagVars, plug>>

\* The mount after an RPC-level failure: the old instance is gone and the
\* next launch is to be made from the start.
Reloaded(m) ==
    [m EXCEPT !.state = "launching", !.launch = @ + 1, !.mem = "none",
              !.written = m.mem, !.afterFail = "pending"]

\* ReadOperation on mock-0/errors/rpc: the plugin answers with an RPC-level
\* error; the request fails, the old subprocess is killed and the mount
\* reloads.
HandleErrorsRPC ==
    /\ mnt.state = "ready"
    /\ mnt.launch < MaxCalls
    /\ mnt' = [Reloaded(mnt) EXCEPT
                  !.last = Response("errors/rpc", "read", "rpc.ErrShutdown",
                                    "", mnt.launch)]
    /\ client' = [client EXCEPT ![mnt.launch].process = "killed"]
    /\ UNCHANGED <<r, mlock, callerEnv, run, issued, wrapSvc, flagVars, plug>>

(***************************************************************************)
(* Specification of the launcher.                                          *)
(***************************************************************************)
Init ==
    /\ r \in PluginRunner
    /\ mlock \in BOOLEAN
    /\ callerEnv \in CallerEnvs
    /\ run = [c \in Calls |-> IdleRun]
    /\ client = [c \in Calls |-> Nil]
    /\ issued = 0
    /\ wrapSvc = <<>>
    /\ flags = DefaultFlags
    /\ argv = <<>>
    /\ tlsConfig = <<>>
    /\ plug = [p \in Procs |-> IdlePlug]
    /\ mnt = NoMount

Next ==
    \E c \in Calls :
        \/ RunGenerateCert(c)
        \/ RunCreateClientTLSConfig(c)
        \/ RunWrapServerConfig(c)
        \/ RunNewClient(c)
        \/ ClientStart(c)
        \/ ClientHandshake(c)

Spec == Init /\ [][Next]_vars

(***************************************************************************)
(* Specification of the plugin binary's flag parsing: the launcher is at   *)
(* rest.                                                                   *)
(***************************************************************************)
InitFlags ==
    /\ Init
    /\ r = [Name |-> "mock-plugin", Command |-> "echo", Args |-> <<"hello">>,
            Sha256 |-> BinaryDigest, Builtin |-> FALSE, BuiltinFactory |-> "nil"]
    /\ mlock = FALSE
    /\ callerEnv = <<>>

NextFlags ==
    \/ ParseArg
    \/ CallGetTLSConfig

SpecFlags == InitFlags /\ [][NextFlags]_vars

(***************************************************************************)
(* Specification of the plugin processes: the launcher is at rest and the  *)
(* wrapping service holds the token of one launch.                         *)
(***************************************************************************)
InitPlugin ==
    /\ r = [Name |-> "mock-plugin", Command |-> "echo", Args |-> <<"hello">>,
            Sha256 |-> BinaryDigest, Builtin |-> FALSE, BuiltinFactory |-> "nil"]
    /\ mlock = FALSE
    /\ callerEnv = <<>>
    /\ run = [c \in Calls |-> IdleRun]
    /\ client = [c \in Calls |-> Nil]
    /\ issued = 1
    /\ wrapSvc = (CHOOSE w \in wrapServerConfig(<<>>, 1, 1) :
                      w.err = NoError).svc
    /\ flags = DefaultFlags
    /\ argv = <<>>
    /\ tlsConfig = <<>>
    /\ plug = [p \in Procs |-> IdlePlug]
    /\ mnt = NoMount

NextPlugin ==
    \/ \E p \in Procs :
          \/ PluginStart(p)
          \/ PluginMainCheckToken(p)
          \/ PluginMainCheckCA(p)
          \/ PluginMainParseFlags(p)
          \/ PluginMainServe(p)
    \/ \E n \in 1..MaxCalls : TokenExpire(n)

SpecPlugin == InitPlugin /\ [][NextPlugin]_vars

(***************************************************************************)
(* Specification of a plugin-backed mount: every launch is one the mount   *)
(* makes.                                                                  *)
(***************************************************************************)
InitMount ==
    /\ Init
    /\ r = [Name |-> "mock-plugin", Command |-> "echo", Args |-> <<"hello">>,
            Sha256 |-> BinaryDigest, Builtin |-> FALSE, BuiltinFactory |-> "nil"]
    /\ callerEnv = <<>>

NextMount ==
    \/ MountEnable
    \/ \E c \in Calls :
          \/ MountLaunch(c)
          \/ MountReady(c)
          \/ MountFailed(c)
    \/ HandleWriteInternal
    \/ HandleReadInternal
    \/ HandleErrorsRPC

SpecMount == InitMount /\ [][NextMount]_vars

(***************************************************************************)
(* Properties.                                                             *)
(***************************************************************************)
\* Number of entries of env with the given name.
CountNamed(env, name) ==
    Cardinality({i \in DOMAIN env : env[i].name = name})

\* Run of call c returned a client.
Returned(c) == run[c].pc = "done" /\ run[c].retClient /\ client[c] # Nil

\* The caller's env carries none of the names Run injects.
CallerEnvPlain ==
    \A i \in DOMAIN callerEnv :
        callerEnv[i].name \notin
            {PluginUnwrapTokenEnv, PluginMlockEnabled, PluginMetadaModeEnv}

\* C1: every Run call in metadata mode that returns a client leaves no entry
\* named PluginUnwrapTokenEnv in the environment of the subprocess command.
\* Stated for a descriptor with a command that is not built-in and for callers
\* whose own env carries no such entry, so that an entry found is one Run put
\* there.
C1_NoTokenInMetadataMode ==
    \A c \in Calls :
        (/\ Returned(c)
         /\ run[c].isMetadataMode
         /\ r.Command # ""
         /\ ~r.Builtin
         /\ CallerEnvPlain)
            => CountNamed(client[c].config.Cmd.Env, PluginUnwrapTokenEnv) = 0

\* C2: for every Run call that returns a client, the client's TLS config is
\* nil exactly when isMetadataMode is true, and otherwise is the config built
\* from the client leaf certificate signed by the CA this call generated.
C2_TLSConfigIffNotMetadata ==
    \A c \in Calls :
        Returned(c) =>
            LET t == client[c].config.TLSConfig
            IN /\ (t = Nil) <=> run[c].isMetadataMode
               /\ ~run[c].isMetadataMode =>
                     /\ run[c].certBytes # 0
                     /\ t.RootCAs = run[c].certBytes
                     /\ t.Certificate =
                           signLeaf(run[c].certBytes, run[c].key, "client")

\* A metadata-mode call and a normal call have both returned a client.
C2_Witness ==
    \E c1, c2 \in Calls :
        /\ Returned(c1) /\ run[c1].isMetadataMode
        /\ Returned(c2) /\ ~run[c2].isMetadataMode

\* C3: if the wrapping service answers a Run call with an error, the call
\* returns a WrapServiceError and no client, and no subprocess command is
\* assembled or started: no environment exists that could carry certificate
\* or key material.
C3_WrapErrorFailsClosed ==
    \A c \in Calls :
        run[c].wrapErr # NoError =>
            /\ run[c].pc = "done"
            /\ run[c].err = "WrapServiceError"
            /\ ~run[c].retClient
            /\ run[c].cmd = Nil
            /\ client[c] = Nil

\* The wrapping service has answered a Run call with an error.
C3_Witness ==
    \E c \in Calls : run[c].wrapCalled /\ run[c].wrapErr # NoError

\* C4: when a returned client is exercised and the digest of the binary
\* differs from the descriptor's Sha256, the checksum comparison comes first:
\* the subprocess is never started, the handshake is never reached, and the
\* use ends with ChecksumMismatchError.
C4_ChecksumMismatchNeverHandshakes ==
    \A c \in Calls :
        (/\ Returned(c)
         /\ r.Command # ""
         /\ r.Sha256 # BinaryDigest) =>
            /\ client[c].state \in {"inert", "failed"}
            /\ client[c].process = "none"
            /\ client[c].state = "failed" =>
                  client[c].err = "ChecksumMismatchError"

\* A client of a descriptor with a wrong digest has been exercised.
C4_Witness ==
    \E c \in Calls :
        /\ Returned(c)
        /\ r.Command # ""
        /\ r.Sha256 # BinaryDigest
        /\ client[c].state = "failed"
        /\ client[c].err = "ChecksumMismatchError"

\* C5: any two Run calls on the descriptor, sequential or interleaved, hold
\* distinct CAs and distinct wrapped tokens, and what a call hands on (the
\* client's TLS config, the wrapped payload behind its token) is made from
\* its own CA, not from another call's.
C5_NoReuseAcrossCalls ==
    /\ \A c1, c2 \in Calls :
          c1 # c2 =>
             /\ (run[c1].certBytes # 0 /\ run[c2].certBytes # 0)
                   => run[c1].certBytes # run[c2].certBytes
             /\ (run[c1].wrapToken # "" /\ run[c2].wrapToken # "")
                   => run[c1].wrapToken # run[c2].wrapToken
             /\ (Returned(c1) /\ client[c1].config.TLSConfig # Nil
                    /\ run[c2].certBytes # 0)
                   => client[c1].config.TLSConfig.RootCAs # run[c2].certBytes
    /\ \A c \in Calls :
          run[c].wrapToken # "" =>
             \E n \in DOMAIN wrapSvc :
                /\ TokenOf(n) = run[c].wrapToken
                /\ wrapSvc[n].CACert = run[c].certBytes
                /\ wrapSvc[n].ServerCert.signedBy = run[c].certBytes
    /\ \A n, m \in DOMAIN wrapSvc :
          n # m => wrapSvc[n].CACert # wrapSvc[m].CACert

\* Two calls interleaved: the call made second was wrapped first, and both
\* returned a client.
C5_Witness ==
    \E c1, c2 \in Calls :
        /\ c1 < c2
        /\ Returned(c1) /\ Returned(c2)
        /\ run[c2].wrapToken = TokenOf(1)
        /\ run[c1].wrapToken = TokenOf(2)

\* Run of call c got through certificate generation and wrapping on a
\* descriptor with a command and a matching digest, in normal mode.
C6_Case(c) ==
    /\ run[c].pc = "done"
    /\ run[c].wrapToken # ""
    /\ ~run[c].isMetadataMode
    /\ r.Command # ""
    /\ r.Sha256 = BinaryDigest

\* C6 as claimed: in that case Run returns a client and no error, and the
\* subprocess environment holds exactly one wrapped-token variable, plus
\* exactly one mlock variable if and only if MlockEnabled() is true.
C6_Original ==
    \A c \in Calls :
        C6_Case(c) =>
            /\ Returned(c)
            /\ run[c].err = NoError
            /\ CountNamed(client[c].config.Cmd.Env, PluginUnwrapTokenEnv) = 1
            /\ CountNamed(client[c].config.Cmd.Env, PluginMlockEnabled)
                  = IF mlock THEN 1 ELSE 0

\* C6 as amended: the same, for a caller whose env carries no entry named
\* PluginUnwrapTokenEnv or PluginMlockEnabled; the one wrapped-token variable
\* carries this call's token.  With any caller env, Run adds exactly one
\* wrapped-token entry, and exactly one mlock entry iff MlockEnabled().
C6_ExactlyOneTokenVariable ==
    \A c \in Calls :
        C6_Case(c) =>
            LET env == client[c].config.Cmd.Env
            IN /\ Returned(c)
               /\ run[c].err = NoError
               /\ CountNamed(env, PluginUnwrapTokenEnv)
                     = CountNamed(callerEnv, PluginUnwrapTokenEnv) + 1
               /\ CountNamed(env, PluginMlockEnabled)
                     = CountNamed(callerEnv, PluginMlockEnabled)
                          + IF mlock THEN 1 ELSE 0
               /\ \E i \in DOMAIN env :
                     env[i] = EnvEntry(PluginUnwrapTokenEnv, run[c].wrapToken)
               /\ (/\ CountNamed(callerEnv, PluginUnwrapTokenEnv) = 0
                   /\ CountNamed(callerEnv, PluginMlockEnabled) = 0) =>
                     /\ CountNamed(env, PluginUnwrapTokenEnv) = 1
                     /\ CountNamed(env, PluginMlockEnabled)
                           = IF mlock THEN 1 ELSE 0

\* The case of C6 with mlock on and a caller env of ordinary entries.
C6_Witness ==
    \E c \in Calls :
        /\ C6_Case(c)
        /\ Returned(c)
        /\ mlock
        /\ callerEnv # <<>>
        /\ CallerEnvPlain
        /\ CountNamed(client[c].config.Cmd.Env, PluginMlockEnabled) = 1

\* C7: Run on a descriptor that is not built-in and has an empty command
\* returns no client and an error, and when certificate generation and
\* wrapping went through that error is a DescriptorInvalidError.
C7_EmptyCommandRejected ==
    \A c \in Calls :
        (run[c].pc = "done" /\ ~r.Builtin /\ r.Command = "") =>
            /\ ~run[c].retClient
            /\ client[c] = Nil
            /\ run[c].err # NoError
            /\ run[c].err \notin {"CertGenerationError", "WrapServiceError"}
                  => run[c].err = "DescriptorInvalidError"

\* C8: a descriptor flagged built-in never has a subprocess started, whatever
\* Run calls and uses of the returned clients are made.
C8_BuiltinNeverSpawns ==
    r.Builtin =>
        \A c \in Calls : client[c] # Nil => client[c].process = "none"

\* C9: Run returns an inert client, with no subprocess running; a subprocess
\* starts only in the first use of a returned client, behind the checksum
\* comparison, and the handshake follows that start.
C9_LazyStart ==
    [][\A c \in Calls :
          /\ (run[c].pc # "done" /\ run'[c].pc = "done" /\ client'[c] # Nil)
                => /\ client'[c].state = "inert"
                   /\ client'[c].process = "none"
          /\ (/\ client'[c] # Nil
              /\ client'[c].process = "running"
              /\ (client[c] = Nil \/ client[c].process = "none"))
                => /\ client[c] # Nil
                   /\ run[c].pc = "done"
                   /\ client[c].state = "inert"
                   /\ ChecksumGate(client[c].config) = "pass"
                   /\ client'[c].state = "started"
          /\ (/\ client'[c] # Nil
              /\ client'[c].state = "connected"
              /\ (client[c] = Nil \/ client[c].state # "connected"))
                => /\ client[c] # Nil
                   /\ client[c].state = "started"
                   /\ client[c].process = "running"]_vars

\* One returned client is still inert while another has been used and is
\* connected to its subprocess.
C9_Witness ==
    \E c1, c2 \in Calls :
        /\ Returned(c1) /\ client[c1].state = "inert"
        /\ client[c1].process = "none"
        /\ Returned(c2) /\ client[c2].state = "connected"
        /\ client[c2].process = "running"

\* The value the command line leaves a flag with: that of its last
\* occurrence, or the default.
LastValue(args, flag, default) ==
    LET at == {i \in DOMAIN args : args[i].flag = flag}
    IN IF at = {} THEN default
       ELSE args[CHOOSE i \in at : \A j \in at : j <= i].value

\* C10: GetTLSConfig returns a config if and only if the command line left
\* one of ca-cert, ca-path, client-cert, client-key non-empty or set
\* tls-skip-verify; --metadata does not count; the config carries exactly the
\* flag values, so Insecure is false unless tls-skip-verify was given.
C10_GetTLSConfig ==
    tlsConfig # <<>> =>
        LET res == tlsConfig[1]
            caCert == LastValue(argv, "ca-cert", "")
            caPath == LastValue(argv, "ca-path", "")
            clientCert == LastValue(argv, "client-cert", "")
            clientKey == LastValue(argv, "client-key", "")
            insecure == LastValue(argv, "tls-skip-verify", "false") = "true"
        IN /\ (res # Nil) <=>
                 \/ caCert # ""
                 \/ caPath # ""
                 \/ clientCert # ""
                 \/ clientKey # ""
                 \/ insecure
           /\ res # Nil =>
                 /\ res.CACert = caCert
                 /\ res.CAPath = caPath
                 /\ res.ClientCert = clientCert
                 /\ res.ClientKey = clientKey
                 /\ res.TLSServerName = ""
                 /\ res.Insecure = insecure

\* --ca-cert, --client-cert and --client-key were given and GetTLSConfig
\* returned a config with Insecure false.
C10_Witness ==
    /\ tlsConfig # <<>>
    /\ tlsConfig[1] # Nil
    /\ ~tlsConfig[1].Insecure
    /\ {argv[i] : i \in DOMAIN argv} =
          { [flag |-> "ca-cert", value |-> "/tmp/ca.pem"],
            [flag |-> "client-cert", value |-> "/tmp/c.pem"],
            [flag |-> "client-key", value |-> "/tmp/c.key"] }

\* C16: if generateCert or createClientTLSConfig fails in a Run call, the
\* call ends there: it returns no client and that very error, the wrapping
\* service is not called for it, and no command or client is built.
C16_CertErrorAborts ==
    \A c \in Calls :
        run[c].certErr # NoError =>
            /\ run[c].pc = "done"
            /\ run[c].err = run[c].certErr
            /\ ~run[c].retClient
            /\ client[c] = Nil
            /\ run[c].cmd = Nil
            /\ ~run[c].wrapCalled
            /\ run[c].wrapToken = ""
            /\ \A n \in DOMAIN wrapSvc :
                  \E d \in Calls : d # c /\ run[d].wrapToken = TokenOf(n)

\* A call has failed in certificate generation while another call went
\* through the wrapping service.
C16_Witness ==
    \E c, d \in Calls :
        /\ run[c].certErr # NoError
        /\ run[c].pc = "done"
        /\ run[d].wrapToken # ""

\* Number of entries of env equal to the entry e.
CountEntry(env, e) == Cardinality({i \in DOMAIN env : env[i] = e})

\* C17 as claimed: for every Run call that returns a client,
\* PluginMetadaModeEnv=true is in the subprocess environment if and only if
\* isMetadataMode is true, and PluginMlockEnabled=true is in it if and only
\* if MlockEnabled() is true.
C17_Original ==
    \A c \in Calls :
        Returned(c) =>
            LET env == client[c].config.Cmd.Env
            IN /\ CountEntry(env, EnvEntry(PluginMetadaModeEnv, "true")) > 0
                     <=> run[c].isMetadataMode
               /\ CountEntry(env, EnvEntry(PluginMlockEnabled, "true")) > 0
                     <=> mlock

\* C17 as amended: Run adds PluginMetadaModeEnv=true to the caller's entries
\* once if isMetadataMode is true and not otherwise, and adds
\* PluginMlockEnabled=true once if MlockEnabled() is true and not otherwise,
\* each whatever the other; for a caller env without these names each
\* variable is in the environment if and only if its condition holds.
C17_MetadataAndMlockVariables ==
    \A c \in Calls :
        Returned(c) =>
            LET env == client[c].config.Cmd.Env
                meta == EnvEntry(PluginMetadaModeEnv, "true")
                ml == EnvEntry(PluginMlockEnabled, "true")
            IN /\ CountEntry(env, meta) = CountEntry(callerEnv, meta)
                     + IF run[c].isMetadataMode THEN 1 ELSE 0
               /\ CountEntry(env, ml) = CountEntry(callerEnv, ml)
                     + IF mlock THEN 1 ELSE 0
               /\ CountNamed(env, PluginMetadaModeEnv)
                     = CountNamed(callerEnv, PluginMetadaModeEnv)
                          + IF run[c].isMetadataMode THEN 1 ELSE 0
               /\ CountNamed(env, PluginMlockEnabled)
                     = CountNamed(callerEnv, PluginMlockEnabled)
                          + IF mlock THEN 1 ELSE 0
               /\ CallerEnvPlain =>
                     /\ CountEntry(env, meta) > 0 <=> run[c].isMetadataMode
                     /\ CountEntry(env, ml) > 0 <=> mlock

\* With mlock off, a metadata-mode call and a normal call have both returned
\* a client, for a caller env of ordinary entries.
C17_Witness ==
    /\ ~mlock
    /\ CallerEnvPlain
    /\ callerEnv # <<>>
    /\ \E c1, c2 \in Calls :
          /\ Returned(c1) /\ run[c1].isMetadataMode
          /\ Returned(c2) /\ ~run[c2].isMetadataMode

\* C18: no step of Run, on success or on an error path, changes the
\* descriptor or the caller's env sequence.
C18_RunLeavesDescriptorAndEnv ==
    [][r' = r /\ callerEnv' = callerEnv]_vars

\* On one descriptor, a call has returned a client, an earlier call has
\* returned an error, and the client has been used.
C18_Witness ==
    \E c, d \in Calls :
        /\ d < c
        /\ run[d].pc = "done" /\ run[d].err # NoError
        /\ Returned(c)
        /\ client[c].state # "inert"
        /\ callerEnv # <<>>

\* The last index of env with the given name (0 if none).
LastNamed(env, name) ==
    LET at == {i \in DOMAIN env : env[i].name = name}
    IN IF at = {} THEN 0 ELSE CHOOSE i \in at : \A j \in at : j <= i

\* C19: the environment Run assembles is the caller's entries in their
\* order, then the wrapped-token entry, then the mlock entry (if any), then
\* the metadata-mode entry (if any); the last entry of each injected name is
\* the one Run injected.
C19_InjectedAfterCallerEntries ==
    \A c \in Calls :
        Returned(c) =>
            LET env == client[c].config.Cmd.Env
                n == Len(callerEnv)
                k == IF mlock THEN 1 ELSE 0
                j == IF run[c].isMetadataMode THEN 1 ELSE 0
            IN /\ Len(env) = n + 1 + k + j
               /\ \A i \in 1..n : env[i] = callerEnv[i]
               /\ env[n + 1] = EnvEntry(PluginUnwrapTokenEnv, run[c].wrapToken)
               /\ mlock => env[n + 2] = EnvEntry(PluginMlockEnabled, "true")
               /\ run[c].isMetadataMode =>
                     env[n + 1 + k + 1] = EnvEntry(PluginMetadaModeEnv, "true")
               /\ LastNamed(env, PluginUnwrapTokenEnv) = n + 1
               /\ mlock => LastNamed(env, PluginMlockEnabled) = n + 2
               /\ run[c].isMetadataMode =>
                     LastNamed(env, PluginMetadaModeEnv) = n + 1 + k + 1

\* A caller env that carries a wrapped-token entry of its own, with mlock on
\* and metadata mode: all three entries were injected behind it.
C19_Witness ==
    \E c \in Calls :
        /\ Returned(c)
        /\ mlock
        /\ run[c].isMetadataMode
        /\ CountNamed(callerEnv, PluginUnwrapTokenEnv) = 1
        /\ Len(client[c].config.Cmd.Env) = Len(callerEnv) + 3

\* C20: every client Run returns, in metadata mode and in normal mode,
\* carries a secure config with the descriptor's Sha256 as checksum and
\* SHA-256 as hash; a subprocess of it runs only if that digest is the
\* binary's.
C20_ChecksumGatingInEveryMode ==
    \A c \in Calls :
        Returned(c) =>
            /\ client[c].config.SecureConfig # Nil
            /\ client[c].config.SecureConfig.Checksum = r.Sha256
            /\ client[c].config.SecureConfig.Hash = "sha256"
            /\ client[c].process = "running" => r.Sha256 = BinaryDigest

\* A metadata-mode client and a normal client, both used: one descriptor has
\* its subprocesses running, or both uses were refused.
C20_Witness ==
    \E c1, c2 \in Calls :
        /\ Returned(c1) /\ run[c1].isMetadataMode
        /\ Returned(c2) /\ ~run[c2].isMetadataMode
        /\ client[c1].state # "inert"
        /\ client[c2].state # "inert"

\* A plugin process serves RPC.
Serving(p) == plug[p].pc = "serving"

\* C11: a plugin process started with PluginUnwrapTokenEnv absent or empty
\* never serves secured RPC: its main returns at the first check, before it
\* builds a TLS provider, calls Serve or unwraps anything.
C11_NoTokenNoServe ==
    \A p \in Procs :
        (plug[p].pc # "none" /\ Getenv(plug[p].env, PluginUnwrapTokenEnv) = "")
            => /\ plug[p].pc \in {"main", "returned"}
               /\ ~plug[p].tlsProvider
               /\ ~plug[p].serveCalled
               /\ plug[p].unwraps = 0
               /\ plug[p].tlsConfig = Nil

\* A process started without the variable and one started with an empty
\* variable have both returned, while the token is still unconsumed.
C11_Witness ==
    \E p, q \in Procs :
        /\ plug[p].pc = "returned"
        /\ CountNamed(plug[p].env, PluginUnwrapTokenEnv) = 0
        /\ plug[q].pc = "returned"
        /\ CountNamed(plug[q].env, PluginUnwrapTokenEnv) = 1
        /\ \A n \in DOMAIN wrapSvc : ~wrapSvc[n].unwrapped

\* C12: every plugin process calls unwrap at most once; a process whose unwrap
\* failed is terminated and never serves; no two processes serve securely on
\* the same token, and a token that serves securely is consumed.
C12_UnwrapOnceAndFatal ==
    /\ \A p \in Procs :
          /\ plug[p].unwraps <= 1
          /\ plug[p].unwrapErr # NoError
                => /\ plug[p].pc = "fatal"
                   /\ plug[p].mode = "none"
          /\ (Serving(p) /\ plug[p].mode = "secure")
                => /\ plug[p].unwraps = 1
                   /\ \E n \in DOMAIN wrapSvc :
                         TokenOf(n) = plug[p].token /\ wrapSvc[n].unwrapped
    /\ \A p, q \in Procs :
          (/\ p # q
           /\ Serving(p) /\ plug[p].mode = "secure"
           /\ Serving(q) /\ plug[q].mode = "secure")
              => plug[p].token # plug[q].token

\* A process terminated without serving never serves afterwards.
C12_FatalIsFinal ==
    [][\A p \in Procs : plug[p].pc = "fatal" => plug'[p].pc = "fatal"]_vars

\* One process serves on the token and a second process that presented the
\* same token is terminated after its single unwrap failed.
C12_Witness ==
    \E p, q \in Procs :
        /\ Serving(p) /\ plug[p].mode = "secure"
        /\ plug[q].token = plug[p].token
        /\ plug[q].pc = "fatal"
        /\ plug[q].unwraps = 1
        /\ plug[q].unwrapErr = "UnwrapError: consumed"

\* Run of call c is past generateCert and has not returned an error.
HasCA(c) == run[c].pc # "idle" /\ run[c].certBytes # 0

====
